---------------------------- MODULE Spec2Model ----------------------------
(***************************************************************************)
(* A model of the transaction log of mishravikas/inbox:                    *)
(*   - inbox/models/session.py      InboxSession, session_scope            *)
(*   - inbox/models/transaction.py  Transaction, dict_delta, RevisionMaker *)
(*   - inbox/transactions/delta_sync.py  create_event,                     *)
(*                                  get_entries_from_public_id             *)
(* Strings that the code parses (cursors, public ids) are sequences of     *)
(* characters; a character is a number: 0..35 are the base-36 digits       *)
(* '0'..'9','a'..'z', Minus is '-', Bang is a character that is no digit.  *)
(***************************************************************************)
EXTENDS Integers, Sequences, FiniteSets, TLC

---------------------------------------------------------------------------
(* Bounds of the model.                                                    *)
NumScopes == 2        \* session_scope blocks, which may overlap
MaxObjs == 3          \* domain records, one of each table
MaxOps == 3           \* operations inside one session_scope block
MaxTxId == 3          \* highest sequence id the store hands out
MaxLimit == 2         \* largest result_limit a client asks for
MaxCursorLen == 2     \* longest cursor string a client sends
NumNamespaces == 2
TicksPerSecond == 2   \* resolution of created_at: clock ticks in a second
MaxTick == 4          \* latest created_at, in ticks
MaxTimestamp == 2     \* latest Unix timestamp a client asks for
NumWorkers == 2       \* pool_size of the S3WorkerPool
NumSaves == 3         \* calls of S3WorkerPool.save
NumHashes == 2        \* distinct data_sha256 values
NumAddresses == 4     \* spellings of email addresses
MaxFieldLen == 1      \* addresses in one address field of a message
NumAccounts == 2

Sessions == 1..NumScopes   \* one InboxSession per session_scope block
Objs == 1..MaxObjs
Namespaces == 1..NumNamespaces
Limits == 1..MaxLimit
Ticks == 0..MaxTick
Timestamps == 0..MaxTimestamp

Base == 36                 \* int(cursor_start, 36)
Minus == Base
Bang == Base + 1
\* The characters a client's cursor is drawn from: '0', '1', '2', '-', '!'.
InputChars == {0, 1, 2, Minus, Bang}

Min(a, b) == IF a < b THEN a ELSE b

RECURSIVE StringsUpTo(_)
StringsUpTo(n) ==
    IF n = 0 THEN {<< >>}
    ELSE LET shorter == StringsUpTo(n - 1)
         IN  shorter \cup {Append(s, c) : s \in {t \in shorter : Len(t) = n - 1},
                                          c \in InputChars}

CursorStrings == StringsUpTo(MaxCursorLen)
Sentinel == <<0>>     \* the stamp '0'

---------------------------------------------------------------------------
(* int(s, 36) of Python 2, for the characters above: an optional sign,     *)
(* then one or more base-36 digits; anything else is a ValueError.         *)
RECURSIVE DigitsValue(_)
DigitsValue(s) ==
    IF Len(s) = 0 THEN 0
    ELSE Base * DigitsValue(SubSeq(s, 1, Len(s) - 1)) + s[Len(s)]

Int36(s) ==
    LET neg == Len(s) > 0 /\ s[1] = Minus
        body == IF neg THEN Tail(s) ELSE s
        ok == Len(body) > 0 /\ \A i \in 1..Len(body) : body[i] < Base
    IN  IF ~ok THEN [ok |-> FALSE, val |-> 0]
        ELSE [ok |-> TRUE,
              val |-> IF neg THEN 0 - DigitsValue(body) ELSE DigitsValue(body)]

\* The base-36 text of a positive number (HasPublicID's encoding of its
\* random number): no sign, no leading zero.
RECURSIVE B36(_)
B36(n) == IF n < Base THEN <<n>> ELSE Append(B36(n \div Base), n % Base)

\* The public ids the generator can draw.
PublicIdPool == {B36(v) : v \in 1..MaxTxId}

\* HasPublicID draws a random number for every row. The sessions' rows get
\* a fixed draw that is one-to-one and not monotone in the sequence id (the
\* code only compares public ids for equality). The logs of SpecPage carry
\* every one-to-one draw from PublicIdPool.
GeneratePublicId(id) == B36(IF id % 2 = 1 THEN id + 1 ELSE id - 1)

---------------------------------------------------------------------------
VARIABLES
    log,        \* the committed rows of the transaction table (a set)
    pc,         \* where each session_scope block is
    isd,        \* each session's ignore_soft_deletes
    amb,        \* each session's namespace argument (NoNamespace: None)
    calls,      \* history: what session_scope has called on its session
    ops,        \* operations each block has done (MaxOps bounds them)
    obj,        \* the domain objects in memory
    row,        \* the committed rows of the domain tables
    pending,    \* per session: Transaction objects added, not yet INSERTed
    flushed,    \* per session: transaction rows INSERTed, not yet committed
    nextTxId,   \* the auto-increment counter of the transaction table
    nextRecId,  \* the auto-increment counters of the domain tables
    exc,        \* per session: the exception on its way out of the block
    captures,   \* history: runs of the after_flush hook in each block
    created,    \* history: the encoder's output when a record was INSERTed
    rd,         \* a sync client paging while the sessions write
    pg,         \* a paging client of a log at rest: its call and its result
    queue,      \* S3WorkerPool.queue
    workers,    \* the S3Worker greenlets: where each is, and its item
    bucket,     \* the keys of the blobs in the S3 bucket
    callback_event,  \* per call of save: whether its Event is set
    saves,      \* where each call of S3WorkerPool.save is
    pm          \* a call of update_contacts_from_message and its result

s3Vars == <<queue, workers, bucket, callback_event, saves>>
writeVars == <<pc, isd, amb, calls, ops, obj, row, pending, flushed,
               nextTxId, nextRecId, exc, captures, created>>
vars == <<log, pc, isd, amb, calls, ops, obj, row, pending, flushed,
          nextTxId, nextRecId, exc, captures, created, rd, pg, s3Vars, pm>>

NoSnapshot == << >>                \* snapshot = None
Some(x) == <<x>>

\* A row of the transaction table (Transaction): uow is history, the
\* session_scope block that made the entry.
Entry(id, public_id, namespace_id, table_name, record_id, command, snapshot, scope) ==
    [id |-> id, public_id |-> public_id, namespace_id |-> namespace_id,
     table_name |-> table_name, record_id |-> record_id,
     command |-> command, snapshot |-> snapshot, uow |-> scope]

\* A sort that puts the highest sequence id first.
RECURSIVE SortByIdDesc(_)
SortByIdDesc(S) ==
    IF S = {} THEN << >>
    ELSE LET first == CHOOSE e \in S : \A f \in S : e.id >= f.id
         IN  <<first>> \o SortByIdDesc(S \ {first})

RECURSIVE SortById(_)
SortById(S) ==
    IF S = {} THEN << >>
    ELSE LET first == CHOOSE e \in S : \A f \in S : e.id <= f.id
         IN  <<first>> \o SortById(S \ {first})

---------------------------------------------------------------------------
(* delta_sync.py                                                           *)

\* create_event(transaction): snapshot['id'] of a None snapshot is a
\* TypeError.
CreateEvent(e) ==
    IF e.snapshot = NoSnapshot THEN [ok |-> FALSE, event |-> [event |-> "TypeError"]]
    ELSE LET snap == e.snapshot[1]
             base == [id |-> snap.id, object_type |-> snap.object]
         IN  [ok |-> TRUE,
              event |->
                IF e.command = "delete"
                THEN [id |-> snap.id, object_type |-> snap.object, event |-> "delete"]
                ELSE [id |-> snap.id, object_type |-> snap.object,
                      event |-> IF e.command = "insert" THEN "create" ELSE "update",
                      attributes |-> snap]]

\* The try block of get_entries_from_public_id: the cursor's sequence id.
ResolveCursor(lg, namespace_id, cursor_start) ==
    LET parsed == Int36(cursor_start)
        found == {e \in lg : e.public_id = cursor_start
                             /\ e.namespace_id = namespace_id}
    IN  IF ~parsed.ok THEN [ok |-> FALSE, id |-> 0]
        ELSE IF parsed.val = 0 THEN [ok |-> TRUE, id |-> 0]
        ELSE IF Cardinality(found) # 1 THEN [ok |-> FALSE, id |-> 0]
        ELSE [ok |-> TRUE, id |-> (CHOOSE e \in found : TRUE).id]

\* safer_yield_per(query, Transaction.id, start_id, count): the rows of the
\* query with id >= start_id, ascending.
SaferYieldPer(lg, namespace_id, start_id) ==
    SortById({e \in lg : e.namespace_id = namespace_id /\ e.id >= start_id})

\* A cursor_end taken from the first row of the page.
CursorEndOfFirst(cursor_start, taken) ==
    IF taken = << >> THEN cursor_start ELSE taken[1].public_id

\* cursor_end: cursor_start, overwritten by the public id of every row the
\* loop has taken.
CursorEnd(cursor_start, taken) ==
    IF taken = << >> THEN cursor_start ELSE taken[Len(taken)].public_id

\* get_entries_from_public_id(namespace_id, cursor_start, db_session,
\* result_limit) on the rows lg the session sees. status is "ok", or the
\* exception raised; ids is history: the sequence ids behind the deltas.
GetEntries(lg, namespace_id, cursor_start, result_limit) ==
    LET start == ResolveCursor(lg, namespace_id, cursor_start)
        rows == SaferYieldPer(lg, namespace_id, start.id + 1)
        n == Min(result_limit, Len(rows))
        taken == SubSeq(rows, 1, n)
        events == [i \in 1..n |-> CreateEvent(taken[i])]
    IN  IF ~start.ok
        THEN [status |-> "ValueError", cursor_start |-> cursor_start,
              deltas |-> << >>, cursor_end |-> cursor_start, ids |-> << >>]
        ELSE IF \E i \in 1..n : ~events[i].ok
        THEN [status |-> "TypeError", cursor_start |-> cursor_start,
              deltas |-> << >>, cursor_end |-> cursor_start, ids |-> << >>]
        ELSE [status |-> "ok", cursor_start |-> cursor_start,
              deltas |-> [i \in 1..n |-> events[i].event],
              cursor_end |-> CursorEnd(cursor_start, taken),
              ids |-> [i \in 1..n |-> taken[i].id]]

\* datetime.utcfromtimestamp(timestamp): the tick of a whole second.
UtcFromTimestamp(timestamp) == timestamp * TicksPerSecond

\* A get_public_id_from_ts that does not filter on the namespace.
GetPublicIdFromTsOfAnyNamespace(lg, namespace_id, timestamp) ==
    LET dt == UtcFromTimestamp(timestamp)
        found == {e \in lg : e.created_at < dt}
    IN  IF found = {} THEN Sentinel
        ELSE (CHOOSE e \in found : \A f \in found : f.id <= e.id).public_id

\* get_public_id_from_ts(namespace_id, timestamp, db_session) on the rows
\* lg: the first row, by descending id, created before dt in the namespace.
GetPublicIdFromTs(lg, namespace_id, timestamp) ==
    LET dt == UtcFromTimestamp(timestamp)
        found == {e \in lg : e.created_at < dt /\ e.namespace_id = namespace_id}
    IN  IF found = {} THEN Sentinel
        ELSE (CHOOSE e \in found : \A f \in found : f.id <= e.id).public_id

---------------------------------------------------------------------------
(* The domain records. Slot o of Objs is one record identity, of a fixed    *)
(* table and namespace.                                                    *)
TableNames == {"message", "contact", "messagecontactassociation"}
TableOf(o) ==
    IF o % 3 = 1 THEN "message"
    ELSE IF o % 3 = 2 THEN "contact"
    ELSE "messagecontactassociation"

NsOf(o) == (((o - 1) \div 2) % NumNamespaces) + 1

\* A HasRevisions that every table mixes in.
HasRevisionsOfEveryTable(table) == TRUE

\* Message and Contact mix in HasRevisions; MessageContactAssociation and
\* Transaction do not.
HasRevisions(table) == table \in {"message", "contact"}

\* The records of the versioned tables.
Versioned == {o \in Objs : HasRevisions(TableOf(o))}

NoValue == "<none>"          \* an attribute never set
Unencodable == "?"           \* a value the snapshot encoder raises on
Names == {"a", "b", Unencodable}

ObjPublicId(o) == "obj" \o ToString(o)

\* dels is history: the InboxSession.delete calls on the record that set
\* its marker (2 stands for two or more).
Absent == [st |-> "absent", sess |-> 0, id |-> 0, name |-> NoValue,
           deleted_at |-> FALSE, modified |-> FALSE, orig |-> NoValue,
           dels |-> 0]
NoRow == [exists |-> FALSE, name |-> NoValue, deleted_at |-> FALSE, dels |-> 0]

\* session.new, session.dirty, session.deleted of SQLAlchemy.
SessionNew(s) == {o \in Objs : obj[o].sess = s /\ obj[o].st = "new"}
SessionDirty(s) ==
    {o \in Objs : obj[o].sess = s /\ obj[o].st = "persistent" /\ obj[o].modified}
SessionDeleted(s) == {o \in Objs : obj[o].sess = s /\ obj[o].st = "deleted"}
IsClean(s) ==
    /\ SessionNew(s) = {} /\ SessionDirty(s) = {} /\ SessionDeleted(s) = {}
    /\ pending[s] = << >>


Perms(S) ==
    {f \in [1..Cardinality(S) -> S] :
        \A i, j \in 1..Cardinality(S) : i # j => f[i] # f[j]}

---------------------------------------------------------------------------
(* transaction.py                                                          *)

\* The snapshot encoder (inbox.api.kellogs.encode): a function of the
\* record's state that carries the record's public id and its type tag; an
\* attribute that is None has no key in the snapshot.
EncodeFails(r) == r.name = Unencodable
Encode(o, r) ==
    IF r.name = NoValue
    THEN [id |-> ObjPublicId(o), object |-> TableOf(o)]
    ELSE [id |-> ObjPublicId(o), object |-> TableOf(o), name |-> r.name]

\* A dict_delta that hands back every pair of current_dict.
DictDeltaOfAll(current_dict, previous_dict) ==
    [k \in DOMAIN current_dict |-> current_dict[k]]

\* dict_delta(current_dict, previous_dict): the pairs of current_dict that
\* differ from previous_dict.
DictDelta(current_dict, previous_dict) ==
    LET keys == {k \in DOMAIN current_dict :
                    \/ k \notin DOMAIN previous_dict
                    \/ previous_dict[k] # current_dict[k]}
    IN  [k \in keys |-> current_dict[k]]

\* Contact.should_create_revision: the name's history has changes;
\* HasRevisions.should_create_revision: True.
ObjShouldCreateRevision(o, r) ==
    IF TableOf(o) = "contact" THEN r.name # r.orig ELSE TRUE

\* RevisionMaker.should_create_revision
ShouldCreateRevision(o, r) ==
    HasRevisions(TableOf(o)) /\ ObjShouldCreateRevision(o, r)

\* RevisionMaker.__init__: self.namespace_id of a maker built without a
\* namespace.
NoNamespace == 0

\* self.namespace_id or obj.namespace.id, in the session the object is in.
NamespaceIdFor(o) ==
    LET s == obj[o].sess
    IN  IF s \in Sessions /\ amb[s] # NoNamespace THEN amb[s] ELSE NsOf(o)

\* A Transaction object before its INSERT.
Revision(command, record_id, table_name, snapshot, namespace_id) ==
    [command |-> command, record_id |-> record_id, table_name |-> table_name,
     snapshot |-> snapshot, namespace_id |-> namespace_id]

Nothing == [raised |-> "none", revs |-> << >>]
Raise(kind) == [raised |-> kind, revs |-> << >>]
Added(rev) == [raised |-> "none", revs |-> <<rev>>]

\* A create_insert_revision that logs the creation as an update.
CreateInsertRevisionAsUpdate(o, r) ==
    IF ~ShouldCreateRevision(o, r) THEN Nothing
    ELSE IF EncodeFails(r) THEN Raise("encode")
    ELSE Added(Revision("update", r.id, TableOf(o), Some(Encode(o, r)),
                        NamespaceIdFor(o)))

CreateInsertRevision(o, r) ==
    IF ~ShouldCreateRevision(o, r) THEN Nothing
    ELSE IF EncodeFails(r) THEN Raise("encode")
    ELSE Added(Revision("insert", r.id, TableOf(o), Some(Encode(o, r)),
                        NamespaceIdFor(o)))

CreateDeleteRevision(o, r) ==
    IF ~ShouldCreateRevision(o, r) THEN Nothing
    ELSE Added(Revision("delete", r.id, TableOf(o), NoSnapshot, NamespaceIdFor(o)))

\* A query for the prior revision that does not filter on the table.
PrevRevisionOfAnyTable(visible, table_name, record_id) ==
    LET mine == {e \in visible : e.record_id = record_id}
    IN  IF mine = {} THEN << >>
        ELSE <<CHOOSE e \in mine : \A f \in mine : f.id <= e.id>>

\* create_insert_revision of a Transaction object: the entries that a
\* flush INSERTs are in session.new when the hook runs.
CreateInsertRevisionOfEntry(e) ==
    IF ~HasRevisions("transaction") THEN Nothing
    ELSE Added(Revision("insert", e.id, "transaction",
                        Some([id |-> e.public_id, object |-> "transaction"]),
                        e.namespace_id))

RECURSIVE RevisionsOfEntries(_)
RevisionsOfEntries(entries) ==
    IF entries = << >> THEN << >>
    ELSE CreateInsertRevisionOfEntry(entries[1]).revs
         \o RevisionsOfEntries(Tail(entries))

\* The query of create_update_revision: the newest row of the record among
\* the rows the session sees.
PrevRevision(visible, table_name, record_id) ==
    LET mine == {e \in visible : e.table_name = table_name
                                 /\ e.record_id = record_id}
    IN  IF mine = {} THEN << >>
        ELSE <<CHOOSE e \in mine : \A f \in mine : f.id <= e.id>>

\* readFails: the store fails on the query. dict_delta against a None
\* snapshot (the previous revision is a delete) is a TypeError.
CreateUpdateRevision(o, r, visible, readFails) ==
    LET prev_revision == PrevRevision(visible, TableOf(o), r.id)
        snapshot == Encode(o, r)
    IN  IF ~ShouldCreateRevision(o, r) THEN Nothing
        ELSE IF readFails THEN Raise("read")
        ELSE IF EncodeFails(r) THEN Raise("encode")
        ELSE IF prev_revision # << >> /\ prev_revision[1].snapshot = NoSnapshot
        THEN Raise("TypeError")
        ELSE IF prev_revision # << >>
                /\ DOMAIN DictDelta(snapshot, prev_revision[1].snapshot[1]) = {}
        THEN Nothing
        ELSE Added(Revision("update", r.id, TableOf(o), Some(snapshot),
                            NamespaceIdFor(o)))

\* One object's turn in create_revisions.
RevisionOf(o, r, visible, readFails) ==
    IF r.st = "new" THEN CreateInsertRevision(o, r)
    ELSE IF r.st = "deleted" THEN CreateDeleteRevision(o, r)
    ELSE IF r.deleted_at THEN CreateDeleteRevision(o, r)
    ELSE CreateUpdateRevision(o, r, visible, readFails)

\* RevisionMaker.create_revisions(session): order lists session.new, then
\* session.dirty, then session.deleted; mem(o) is object o as the hook sees
\* it. The first exception ends the loop.
RECURSIVE CreateRevisions(_, _, _, _)
CreateRevisions(order, mem, visible, readFails) ==
    IF order = << >> THEN Nothing
    ELSE LET first == RevisionOf(order[1], mem[order[1]], visible, readFails)
             rest == CreateRevisions(Tail(order), mem, visible, readFails)
         IN  IF first.raised # "none" THEN first
             ELSE IF rest.raised # "none" THEN rest
             ELSE [raised |-> "none", revs |-> first.revs \o rest.revs]

---------------------------------------------------------------------------
(* session.py                                                              *)

\* The attribute history SQLAlchemy keeps, kept here where the code reads
\* it (Contact.should_create_revision).
History(o, v) == IF TableOf(o) = "contact" THEN v ELSE NoValue

Detached(o) ==
    [st |-> "detached", sess |-> 0, id |-> obj[o].id,
     name |-> row[o].name, deleted_at |-> row[o].deleted_at,
     modified |-> FALSE, orig |-> History(o, row[o].name),
     dels |-> row[o].dels]
Gone(o) ==
    [st |-> "gone", sess |-> 0, id |-> obj[o].id,
     name |-> NoValue, deleted_at |-> FALSE, modified |-> FALSE,
     orig |-> NoValue, dels |-> 0]

\* One more operation of the block of session s.
Step(s) ==
    /\ ops[s] < MaxOps
    /\ ops' = [ops EXCEPT ![s] = @ + 1]

\* An exception leaves the block: session_scope's except clause is next.
Raises(s, kind) ==
    /\ pc' = [pc EXCEPT ![s] = "except"]
    /\ exc' = [exc EXCEPT ![s] = kind]

\* Session.flush() with the after_flush hook of InboxSession.__init__:
\* the pending rows are INSERTed (the store numbers them), the records are
\* written, the hook runs RevisionMaker.create_revisions on the session's
\* new (the entries just INSERTed among them), dirty and deleted objects,
\* and the flush is finalized. A record's
\* id is the next one of its table. fault: the store fails on INSERTing an
\* entry ("append") or on the hook's query ("read").
Flush(s, thenPc) ==
    LET pend == pending[s]
        k == Len(pend)
        news == SessionNew(s)
        recId(o) ==
            IF o \in news
            THEN nextRecId[TableOf(o)]
                 + Cardinality({p \in news : TableOf(p) = TableOf(o) /\ p < o})
            ELSE obj[o].id
        mem == [o \in Objs |-> [obj[o] EXCEPT !.id = recId(o)]]
        inserted ==
            {Entry(nextTxId + i - 1, GeneratePublicId(nextTxId + i - 1),
                   pend[i].namespace_id, pend[i].table_name, pend[i].record_id,
                   pend[i].command, pend[i].snapshot, s) : i \in 1..k}
        visible == log \cup flushed[s] \cup inserted
        burned == [t \in TableNames |->
                     nextRecId[t] + Cardinality({o \in news : TableOf(o) = t})]
    IN
    /\ ~IsClean(s)
    /\ nextTxId + k - 1 <= MaxTxId
    /\ \E ordNew \in Perms(news),
          ordDirty \in Perms(SessionDirty(s)),
          ordDeleted \in Perms(SessionDeleted(s)),
          fault \in {"none", "append", "read"} :
        LET hook == CreateRevisions(ordNew \o ordDirty \o ordDeleted, mem,
                                    visible, fault = "read")
        IN
        IF fault = "append"
        THEN /\ k > 0
             /\ Raises(s, "append")
             /\ UNCHANGED <<obj, pending, flushed, nextTxId, nextRecId, created,
                            captures>>
        ELSE IF hook.raised # "none"
        THEN /\ Raises(s, hook.raised)
             /\ nextTxId' = nextTxId + k
             /\ nextRecId' = burned
             /\ captures' = [captures EXCEPT ![s] = @ + 1]
             /\ UNCHANGED <<obj, pending, flushed, created>>
        ELSE /\ pc' = [pc EXCEPT ![s] = thenPc]
             /\ exc' = exc
             /\ nextTxId' = nextTxId + k
             /\ nextRecId' = burned
             /\ captures' = [captures EXCEPT ![s] = @ + 1]
             /\ flushed' = [flushed EXCEPT ![s] = @ \cup inserted]
             /\ pending' = [pending EXCEPT ![s] =
                             hook.revs \o RevisionsOfEntries(SortById(inserted))]
             /\ obj' = [o \in Objs |->
                         IF obj[o].sess # s THEN obj[o]
                         ELSE IF obj[o].st \in {"deleted", "removed"}
                         THEN [obj[o] EXCEPT !.st = "removed", !.modified = FALSE]
                         ELSE [mem[o] EXCEPT !.st = "persistent",
                                             !.modified = FALSE,
                                             !.orig = History(o, obj[o].name)]]
             /\ created' = [o \in Objs |->
                             IF o \in news /\ ~EncodeFails(obj[o])
                             THEN [snap |-> Some(Encode(o, mem[o])), scope |-> s]
                             ELSE created[o]]
    /\ UNCHANGED <<log, isd, amb, calls, row, rd, pg, s3Vars, pm>>

\* session_scope(versioned=True, ignore_soft_deletes=softdel,
\* namespace=namespace): the session is built and the with-block entered. The blocks are numbered in the
\* order they are entered.
Begin(s, softdel, namespace) ==
    /\ pc[s] = "idle"
    /\ \A t \in Sessions : t < s => pc[t] # "idle"
    /\ pc' = [pc EXCEPT ![s] = "body"]
    /\ isd' = [isd EXCEPT ![s] = softdel]
    /\ amb' = [amb EXCEPT ![s] = namespace]
    /\ UNCHANGED <<log, calls, ops, obj, row, pending, flushed, nextTxId, nextRecId,
                   exc, captures, created, rd, pg, s3Vars, pm>>

\* InboxSession.add of a fresh record named n.
Add(s, o, n) ==
    /\ pc[s] = "body"
    /\ Step(s)
    /\ obj[o].st = "absent"
    /\ obj' = [obj EXCEPT ![o] =
                 [st |-> "new", sess |-> s, id |-> 0, name |-> n,
                  deleted_at |-> FALSE, modified |-> FALSE, orig |-> NoValue,
                  dels |-> 0]]
    /\ UNCHANGED <<log, pc, isd, amb, calls, row, pending, flushed,
                   nextTxId, nextRecId, exc, captures, created, rd, pg, s3Vars, pm>>

\* A query that does not filter the soft-deleted rows out.
LoadUnfiltered(s, o) ==
    /\ pc[s] = "body"
    /\ Step(s)
    /\ obj[o].st = "detached"
    /\ row[o].exists
    /\ obj' = [obj EXCEPT ![o] = [@ EXCEPT !.st = "persistent", !.sess = s]]
    /\ UNCHANGED <<log, pc, isd, amb, calls, row, pending, flushed,
                   nextTxId, nextRecId, exc, captures, created, rd, pg, s3Vars, pm>>

\* InboxSession.query(...) loads a committed record that no open session
\* holds; with ignore_soft_deletes the soft-deleted rows are filtered out.
Load(s, o) ==
    /\ pc[s] = "body"
    /\ Step(s)
    /\ obj[o].st = "detached"
    /\ row[o].exists
    /\ isd[s] => ~row[o].deleted_at
    /\ obj' = [obj EXCEPT ![o] = [@ EXCEPT !.st = "persistent", !.sess = s]]
    /\ UNCHANGED <<log, pc, isd, amb, calls, row, pending, flushed,
                   nextTxId, nextRecId, exc, captures, created, rd, pg, s3Vars, pm>>

\* InboxSession.add (add_all) of an instance an earlier session left
\* behind: with ignore_soft_deletes a soft-deleted instance is refused.
Attach(s, o) ==
    /\ pc[s] = "body"
    /\ Step(s)
    /\ obj[o].st = "detached"
    /\ row[o].exists
    /\ IF isd[s] /\ obj[o].deleted_at
       THEN /\ Raises(s, "add")
            /\ obj' = obj
       ELSE /\ obj' = [obj EXCEPT ![o] = [@ EXCEPT !.st = "persistent", !.sess = s]]
            /\ UNCHANGED <<pc, exc>>
    /\ UNCHANGED <<log, isd, amb, calls, row, pending, flushed,
                   nextTxId, nextRecId, captures, created, rd, pg, s3Vars, pm>>

\* The block assigns a field of a record of its session.
SetName(s, o, n) ==
    /\ pc[s] = "body"
    /\ Step(s)
    /\ obj[o].sess = s
    /\ obj[o].st \in {"new", "persistent"}
    /\ obj' = [obj EXCEPT ![o] =
                 [@ EXCEPT !.name = n,
                           !.modified = (obj[o].st = "persistent")]]
    /\ UNCHANGED <<log, pc, isd, amb, calls, row, pending, flushed,
                   nextTxId, nextRecId, exc, captures, created, rd, pg, s3Vars, pm>>

\* The block clears the soft-delete marker of a record of its session.
ClearDeleted(s, o) ==
    /\ pc[s] = "body"
    /\ Step(s)
    /\ obj[o].sess = s
    /\ obj[o].st \in {"new", "persistent"}
    /\ obj[o].deleted_at
    /\ obj' = [obj EXCEPT ![o] =
                 [@ EXCEPT !.deleted_at = FALSE,
                           !.modified = (obj[o].st = "persistent")]]
    /\ UNCHANGED <<log, pc, isd, amb, calls, row, pending, flushed,
                   nextTxId, nextRecId, exc, captures, created, rd, pg, s3Vars, pm>>

\* InboxSession.delete(instance): mark_deleted() and add() with
\* ignore_soft_deletes, else Session.delete(), which refuses an instance
\* that is not persisted.
Delete(s, o) ==
    /\ pc[s] = "body"
    /\ Step(s)
    /\ obj[o].sess = s
    /\ obj[o].st \in {"new", "persistent"}
    /\ IF isd[s]
       THEN /\ obj' = [obj EXCEPT ![o] =
                        [@ EXCEPT !.deleted_at = TRUE,
                                  !.modified = (obj[o].st = "persistent"),
                                  !.dels = Min(2, @ + 1)]]
            /\ UNCHANGED <<pc, exc>>
       ELSE IF obj[o].st = "persistent"
       THEN /\ obj' = [obj EXCEPT ![o] = [@ EXCEPT !.st = "deleted"]]
            /\ UNCHANGED <<pc, exc>>
       ELSE /\ Raises(s, "body")
            /\ obj' = obj
    /\ UNCHANGED <<log, isd, amb, calls, row, pending, flushed,
                   nextTxId, nextRecId, captures, created, rd, pg, s3Vars, pm>>

\* InboxSession.flush(), or the autoflush of a query, inside the block.
FlushInBody(s) ==
    /\ pc[s] = "body"
    /\ Step(s)
    /\ Flush(s, "body")

\* The block raises.
BodyRaises(s) ==
    /\ pc[s] = "body"
    /\ ops' = ops
    /\ Raises(s, "body")
    /\ UNCHANGED <<log, isd, amb, calls, obj, row, pending, flushed,
                   nextTxId, nextRecId, captures, created, rd, pg, s3Vars, pm>>

\* The block ends: session.commit() is next.
BodyReturns(s) ==
    /\ pc[s] = "body"
    /\ ops' = ops
    /\ pc' = [pc EXCEPT ![s] = "commit"]
    /\ calls' = [calls EXCEPT ![s] = Append(@, "commit")]
    /\ UNCHANGED <<log, isd, amb, obj, row, pending, flushed,
                   nextTxId, nextRecId, exc, captures, created, rd, pg, s3Vars, pm>>

\* Session.commit() flushes until the session is clean.
CommitFlush(s) ==
    /\ pc[s] = "commit"
    /\ ops' = ops
    /\ Flush(s, "commit")

\* A commit whose failure leaves the entries of the unit of work written.
CommitDoneLeavingEntries(s, ok) ==
    /\ pc[s] = "commit"
    /\ ops' = ops
    /\ IsClean(s)
    /\ log' = log \cup flushed[s]
    /\ IF ok
       THEN /\ flushed' = [flushed EXCEPT ![s] = {}]
            /\ row' = [o \in Objs |->
                        IF obj[o].sess # s THEN row[o]
                        ELSE IF obj[o].st = "removed" THEN NoRow
                        ELSE [exists |-> TRUE, name |-> obj[o].name,
                              deleted_at |-> obj[o].deleted_at,
                              dels |-> obj[o].dels]]
            /\ obj' = [o \in Objs |->
                        IF obj[o].sess # s THEN obj[o]
                        ELSE IF obj[o].st = "removed" THEN Gone(o)
                        ELSE [obj[o] EXCEPT !.st = "detached", !.sess = 0,
                                            !.modified = FALSE,
                                            !.orig = History(o, obj[o].name)]]
            /\ pc' = [pc EXCEPT ![s] = "committed"]
            /\ exc' = exc
            /\ calls' = [calls EXCEPT ![s] = Append(@, "close")]
       ELSE /\ Raises(s, "commit")
            /\ UNCHANGED <<flushed, row, obj, calls>>
    /\ UNCHANGED <<isd, amb, pending, nextTxId, nextRecId, captures, created,
                   rd, pg, s3Vars, pm>>

\* Session.commit() on a clean session commits the store's transaction,
\* and session_scope's finally clause closes the session; or the store
\* fails the commit.
CommitDone(s, ok) ==
    /\ pc[s] = "commit"
    /\ ops' = ops
    /\ IsClean(s)
    /\ IF ok
       THEN /\ log' = log \cup flushed[s]
            /\ flushed' = [flushed EXCEPT ![s] = {}]
            /\ row' = [o \in Objs |->
                        IF obj[o].sess # s THEN row[o]
                        ELSE IF obj[o].st = "removed" THEN NoRow
                        ELSE [exists |-> TRUE, name |-> obj[o].name,
                              deleted_at |-> obj[o].deleted_at,
                              dels |-> obj[o].dels]]
            /\ obj' = [o \in Objs |->
                        IF obj[o].sess # s THEN obj[o]
                        ELSE IF obj[o].st = "removed" THEN Gone(o)
                        ELSE [obj[o] EXCEPT !.st = "detached", !.sess = 0,
                                            !.modified = FALSE,
                                            !.orig = History(o, obj[o].name)]]
            /\ pc' = [pc EXCEPT ![s] = "committed"]
            /\ exc' = exc
            /\ calls' = [calls EXCEPT ![s] = Append(@, "close")]
       ELSE /\ Raises(s, "commit")
            /\ UNCHANGED <<log, flushed, row, obj, calls>>
    /\ UNCHANGED <<isd, amb, pending, nextTxId, nextRecId, captures, created,
                   rd, pg, s3Vars, pm>>

\* An except clause that commits what the session has flushed.
ExceptCommitting(s) ==
    /\ pc[s] = "except"
    /\ ops' = ops
    /\ log' = log \cup flushed[s]
    /\ flushed' = [flushed EXCEPT ![s] = {}]
    /\ pending' = [pending EXCEPT ![s] = << >>]
    /\ obj' = [o \in Objs |->
                IF obj[o].sess # s THEN obj[o]
                ELSE IF row[o].exists THEN Detached(o)
                ELSE Gone(o)]
    /\ pc' = [pc EXCEPT ![s] = "raised"]
    /\ calls' = [calls EXCEPT ![s] = @ \o <<"rollback", "close">>]
    /\ UNCHANGED <<isd, amb, row, nextTxId, nextRecId, exc, captures,
                   created, rd, pg, s3Vars, pm>>

\* An except clause that raises another exception than the one it caught.
ExceptRaisingAnother(s) ==
    /\ pc[s] = "except"
    /\ ops' = ops
    /\ flushed' = [flushed EXCEPT ![s] = {}]
    /\ pending' = [pending EXCEPT ![s] = << >>]
    /\ obj' = [o \in Objs |->
                IF obj[o].sess # s THEN obj[o]
                ELSE IF row[o].exists THEN Detached(o)
                ELSE Gone(o)]
    /\ pc' = [pc EXCEPT ![s] = "raised"]
    /\ exc' = [exc EXCEPT ![s] = "rollback"]
    /\ calls' = [calls EXCEPT ![s] = @ \o <<"rollback", "close">>]
    /\ UNCHANGED <<log, isd, amb, row, nextTxId, nextRecId, captures,
                   created, rd, pg, s3Vars, pm>>

\* session_scope's except clause, session.rollback() and raise, and its
\* finally clause, session.close().
Except(s) ==
    /\ pc[s] = "except"
    /\ ops' = ops
    /\ flushed' = [flushed EXCEPT ![s] = {}]
    /\ pending' = [pending EXCEPT ![s] = << >>]
    /\ obj' = [o \in Objs |->
                IF obj[o].sess # s THEN obj[o]
                ELSE IF row[o].exists THEN Detached(o)
                ELSE Gone(o)]
    /\ pc' = [pc EXCEPT ![s] = "raised"]
    /\ calls' = [calls EXCEPT ![s] = @ \o <<"rollback", "close">>]
    /\ UNCHANGED <<log, isd, amb, row, nextTxId, nextRecId, exc, captures,
                   created, rd, pg, s3Vars, pm>>

\* A Poll that takes the entries it hands out off the log.
PollConsuming(limit) ==
    LET page == GetEntries(log, rd.ns, rd.cursor, limit)
    IN  /\ rd.status = "ok"
        /\ rd' = IF page.status = "ok"
                 THEN [rd EXCEPT !.cursor = page.cursor_end,
                                 !.seen = @ \o page.ids]
                 ELSE [rd EXCEPT !.status = page.status]
        /\ log' = {e \in log : \A i \in 1..Len(page.ids) : page.ids[i] # e.id}
        /\ pg' = pg
        /\ UNCHANGED <<writeVars, s3Vars, pm>>

---------------------------------------------------------------------------
(* A sync client of namespace rd.ns pages with the cursor each page hands  *)
(* back, while the sessions write: it sees the committed rows.             *)
Poll(limit) ==
    LET page == GetEntries(log, rd.ns, rd.cursor, limit)
    IN  /\ rd.status = "ok"
        /\ rd' = IF page.status = "ok"
                 THEN [rd EXCEPT !.cursor = page.cursor_end,
                                 !.seen = @ \o page.ids]
                 ELSE [rd EXCEPT !.status = page.status]
        /\ UNCHANGED <<log, pg>>
        /\ UNCHANGED <<writeVars, s3Vars, pm>>

\* The rows with their created_at: the store's clock, which ticks once for
\* every row appended.
Stamped(lg) ==
    {[id |-> e.id, public_id |-> e.public_id, namespace_id |-> e.namespace_id,
      created_at |-> e.id] : e \in lg}

\* The sync client starts from a point in time: get_public_id_from_ts gives
\* it its first cursor.
StartFromTs(timestamp) ==
    /\ rd.status = "ok" /\ rd.cursor = Sentinel /\ rd.seen = << >>
    /\ rd' = [rd EXCEPT !.cursor = GetPublicIdFromTs(Stamped(log), rd.ns,
                                                      timestamp)]
    /\ UNCHANGED <<log, pg>>
    /\ UNCHANGED <<writeVars, s3Vars, pm>>

(* A client of a log at rest: single calls with any cursor, and scans from *)
(* the sentinel that feed each cursor_end back as cursor_start until a     *)
(* page comes back empty. acc is what the scan has been handed so far.     *)
Call(namespace_id, cursor_start, limit) ==
    /\ pg.phase = "idle"
    /\ pg' = [phase |-> "call", ns |-> namespace_id, limit |-> limit,
              cursor |-> cursor_start, acc |-> << >>,
              res |-> GetEntries(log, namespace_id, cursor_start, limit)]
    /\ UNCHANGED <<log, rd>>
    /\ UNCHANGED <<writeVars, s3Vars, pm>>

ScanStart(namespace_id, limit) ==
    /\ pg.phase = "idle"
    /\ pg' = [phase |-> "scan", ns |-> namespace_id, limit |-> limit,
              cursor |-> Sentinel, acc |-> << >>, res |-> pg.res]
    /\ UNCHANGED <<log, rd>>
    /\ UNCHANGED <<writeVars, s3Vars, pm>>

ScanNext ==
    LET page == GetEntries(log, pg.ns, pg.cursor, pg.limit)
    IN  /\ pg.phase = "scan"
        /\ pg' = IF page.status # "ok"
                 THEN [pg EXCEPT !.phase = "error", !.res = page]
                 ELSE IF page.deltas = << >>
                 THEN [pg EXCEPT !.phase = "done", !.res = page]
                 ELSE [pg EXCEPT !.cursor = page.cursor_end, !.res = page,
                                 !.acc = @ \o [i \in 1..Len(page.ids) |->
                                                 [id |-> page.ids[i],
                                                  delta |-> page.deltas[i]]]]
        /\ UNCHANGED <<log, rd>>
        /\ UNCHANGED <<writeVars, s3Vars, pm>>

---------------------------------------------------------------------------
(* util/s3.py: the S3WorkerPool, its queue and its S3Worker greenlets.     *)
Workers == 1..NumWorkers
Saves == 1..NumSaves
Hashes == 1..NumHashes
NoItem == [call |-> 0, data_sha256 |-> 0]

\* S3WorkerPool.save(data, data_sha256), call c: the Event is made, the
\* item is put on the queue, and the caller waits on the Event.
PoolSave(c, data_sha256) ==
    /\ saves[c] = "idle"
    /\ \A d \in Saves : d < c => saves[d] # "idle"
    /\ queue' = Append(queue, [call |-> c, data_sha256 |-> data_sha256])
    /\ saves' = [saves EXCEPT ![c] = "waiting"]
    /\ UNCHANGED <<workers, bucket, callback_event>>
    /\ UNCHANGED <<log, rd, pg, writeVars, pm>>

\* S3Worker._run up to its loop: the connection and the bucket.
WorkerRun(w) ==
    /\ workers[w].pc = "start"
    /\ workers' = [workers EXCEPT ![w] = [pc |-> "get", item |-> NoItem]]
    /\ UNCHANGED <<queue, bucket, callback_event, saves>>
    /\ UNCHANGED <<log, rd, pg, writeVars, pm>>

\* self.queue.get() of the loop: it blocks while the queue is empty.
QueueGet(w) ==
    /\ workers[w].pc = "get"
    /\ queue # << >>
    /\ workers' = [workers EXCEPT ![w] = [pc |-> "save", item |-> Head(queue)]]
    /\ queue' = Tail(queue)
    /\ UNCHANGED <<bucket, callback_event, saves>>
    /\ UNCHANGED <<log, rd, pg, writeVars, pm>>

\* S3Worker._save(data, data_sha256, callback_event). When the bucket has
\* the key, the metadata is asserted and _save returns: the loop goes on.
\* When it has not, set_metadata's argument self.data_sha256 is read: the
\* worker has no such attribute, the AttributeError ends the greenlet.
\* Neither way reaches callback_event.set().
WorkerSave(w) ==
    /\ workers[w].pc = "save"
    /\ IF workers[w].item.data_sha256 \in bucket
       THEN workers' = [workers EXCEPT ![w] = [pc |-> "get", item |-> NoItem]]
       ELSE workers' = [workers EXCEPT ![w] = [pc |-> "dead", item |-> @.item]]
    /\ UNCHANGED <<queue, bucket, callback_event, saves>>
    /\ UNCHANGED <<log, rd, pg, writeVars, pm>>

\* callback_event.wait() has returned: save returns to its caller.
Returned(c) == saves[c] = "waiting" /\ callback_event[c]

\* S3WorkerPool.__init__: the queue is empty, the workers are started.
InitPool ==
    /\ queue = << >>
    /\ workers = [w \in Workers |-> [pc |-> "start", item |-> NoItem]]
    /\ callback_event = [c \in Saves |-> FALSE]
    /\ saves = [c \in Saves |-> "idle"]

---------------------------------------------------------------------------
(* contacts/process_mail.py. An address is a number; the addresses 2k - 1  *)
(* and 2k are two spellings of one address.                                *)
Addresses == 1..NumAddresses
Accounts == 1..NumAccounts
FieldNames == <<"from_addr", "to_addr", "cc_addr", "bcc_addr">>

\* inbox.util.addr.canonicalize_address
Canonicalize(email_address) == (email_address + 1) \div 2

\* A Contact: existing ones are rows of the store, new ones are made by the
\* call.
ContactOf(canonicalized_address, account_id, new) ==
    [canonicalized_address |-> canonicalized_address,
     account_id |-> account_id, new |-> new]

NoContact == << >>           \* contact = None

\* itertools.chain(message.from_addr, ..., message.bcc_addr), as a list.
Chain(message) ==
    message.from_addr \o message.to_addr \o message.cc_addr \o message.bcc_addr

\* What is left of an iterator that a loop has run to its end.
Exhausted(iterator) == << >>

\* The loop of lines 23-30 over what it finds in address_iterator.
RECURSIVE NewContacts(_, _, _)
NewContacts(addresses, contact_map, account_id) ==
    IF addresses = << >> THEN contact_map
    ELSE LET canonicalized_address == Canonicalize(addresses[1])
         IN  IF canonicalized_address \in DOMAIN contact_map
             THEN NewContacts(Tail(addresses), contact_map, account_id)
             ELSE NewContacts(Tail(addresses),
                              contact_map @@
                                (canonicalized_address :>
                                   ContactOf(canonicalized_address, account_id, TRUE)),
                              account_id)

\* The loop of lines 33-39 from field i on: an association for every
\* address of every field, with contact_map.get() as its contact.
RECURSIVE Associate(_, _, _)
Associate(message, contact_map, i) ==
    IF i > Len(FieldNames) THEN << >>
    ELSE LET field == message[FieldNames[i]]
         IN  [j \in 1..Len(field) |->
                 LET canonicalized_address == Canonicalize(field[j])
                 IN  [contact |-> IF canonicalized_address \in DOMAIN contact_map
                                  THEN Some(contact_map[canonicalized_address])
                                  ELSE NoContact,
                      field |-> field]]
             \o Associate(message, contact_map, i + 1)

\* update_contacts_from_message(db_session, message, account_id) on the
\* Contact rows contacts: the Contacts it makes and the associations it
\* appends to message.contacts.
UpdateContactsFromMessage(contacts, message, account_id) ==
    LET address_iterator == Chain(message)
        canonicalized_addresses ==
            {Canonicalize(address_iterator[i]) : i \in 1..Len(address_iterator)}
        existing_contacts ==
            {c \in contacts : /\ c.canonicalized_address \in canonicalized_addresses
                              /\ c.account_id = account_id}
        existing_map ==
            [k \in {c.canonicalized_address : c \in existing_contacts} |->
                CHOOSE c \in existing_contacts : c.canonicalized_address = k]
        contact_map == NewContacts(Exhausted(address_iterator), existing_map,
                                   account_id)
    IN  [created |-> {contact_map[k] : k \in DOMAIN contact_map} \ contacts,
         assocs |-> Associate(message, contact_map, 1)]

FieldValues == {f \in UNION {[1..n -> Addresses] : n \in 0..MaxFieldLen} : TRUE}
Messages == [from_addr : FieldValues, to_addr : FieldValues,
             cc_addr : FieldValues, bcc_addr : FieldValues]
NoMessage == [from_addr |-> << >>, to_addr |-> << >>, cc_addr |-> << >>,
              bcc_addr |-> << >>]
CanonicalAddresses == {Canonicalize(a) : a \in Addresses}
ContactRows == {ContactOf(k, a, FALSE) : k \in CanonicalAddresses, a \in Accounts}

\* The call, on the message and the Contact rows there are.
UpdateContacts ==
    /\ pm.phase = "idle"
    /\ LET res == UpdateContactsFromMessage(pm.contacts, pm.message, pm.account_id)
       IN  pm' = [pm EXCEPT !.phase = "done", !.created = res.created,
                            !.assocs = res.assocs]
    /\ UNCHANGED <<log, rd, pg, writeVars, s3Vars>>

NoMail == [phase |-> "idle", message |-> NoMessage, contacts |-> {},
           account_id |-> 1, created |-> {}, assocs |-> << >>]

\* Everything but the sessions and the clients of the log is at rest.
InitRest ==
    /\ InitPool
    /\ bucket = {}
    /\ pm = NoMail

NoCall == [status |-> "none", cursor_start |-> << >>, deltas |-> << >>,
           cursor_end |-> << >>, ids |-> << >>]

InitWriters ==
    /\ pc = [s \in Sessions |-> "idle"]
    /\ isd = [s \in Sessions |-> TRUE]
    /\ amb = [s \in Sessions |-> NoNamespace]
    /\ calls = [s \in Sessions |-> << >>]
    /\ ops = [s \in Sessions |-> 0]
    /\ obj = [o \in Objs |-> Absent]
    /\ row = [o \in Objs |-> NoRow]
    /\ pending = [s \in Sessions |-> << >>]
    /\ flushed = [s \in Sessions |-> {}]
    /\ nextTxId = 1
    /\ nextRecId = [t \in TableNames |-> 1]
    /\ exc = [s \in Sessions |-> "none"]
    /\ captures = [s \in Sessions |-> 0]
    /\ created = [o \in Objs |-> [snap |-> NoSnapshot, scope |-> 0]]

InitClients ==
    /\ rd = [ns |-> 1, cursor |-> Sentinel, seen |-> << >>, status |-> "ok"]
    /\ pg = [phase |-> "idle", ns |-> 1, limit |-> 1, cursor |-> Sentinel,
             acc |-> << >>, res |-> NoCall]

Init ==
    /\ log = {}
    /\ InitWriters
    /\ InitClients
    /\ InitRest

\* The sessions: any of the operations on the versioned records, in any
\* interleaving.
Next ==
    \/ \E s \in Sessions, softdel \in BOOLEAN : Begin(s, softdel, NoNamespace)
    \/ \E s \in Sessions, o \in Versioned, n \in Names : Add(s, o, n)
    \/ \E s \in Sessions, o \in Versioned : Load(s, o)
    \/ \E s \in Sessions, o \in Versioned : Attach(s, o)
    \/ \E s \in Sessions, o \in Versioned, n \in Names : SetName(s, o, n)
    \/ \E s \in Sessions, o \in Versioned : ClearDeleted(s, o)
    \/ \E s \in Sessions, o \in Versioned : Delete(s, o)
    \/ \E s \in Sessions : FlushInBody(s)
    \/ \E s \in Sessions : BodyRaises(s)
    \/ \E s \in Sessions : BodyReturns(s)
    \/ \E s \in Sessions : CommitFlush(s)
    \/ \E s \in Sessions, ok \in BOOLEAN : CommitDone(s, ok)
    \/ \E s \in Sessions : Except(s)

Spec == Init /\ [][Next]_vars

\* Sessions that add records and commit, and the sync client.
NextSync ==
    \/ \E s \in Sessions : Begin(s, TRUE, NoNamespace)
    \/ \E s \in Sessions, o \in Versioned : Add(s, o, "a")
    \/ \E s \in Sessions : FlushInBody(s)
    \/ \E s \in Sessions : BodyRaises(s)
    \/ \E s \in Sessions : BodyReturns(s)
    \/ \E s \in Sessions : CommitFlush(s)
    \/ \E s \in Sessions : CommitDone(s, TRUE)
    \/ \E s \in Sessions : Except(s)
    \/ \E limit \in Limits : Poll(limit)

SpecSync == Init /\ [][NextSync]_vars

\* Sessions built with or without a namespace, which add, change and
\* soft-delete records and commit.
NextNs ==
    \/ \E s \in Sessions, namespace \in {NoNamespace} \cup Namespaces :
          Begin(s, TRUE, namespace)
    \/ \E s \in Sessions, o \in Versioned : Add(s, o, "a")
    \/ \E s \in Sessions, o \in Versioned : SetName(s, o, "b")
    \/ \E s \in Sessions, o \in Versioned : Delete(s, o)
    \/ \E s \in Sessions : BodyRaises(s)
    \/ \E s \in Sessions : BodyReturns(s)
    \/ \E s \in Sessions : CommitFlush(s)
    \/ \E s \in Sessions : CommitDone(s, TRUE)
    \/ \E s \in Sessions : Except(s)

SpecNs == Init /\ [][NextNs]_vars

\* Sessions that create and load records, assign their name (a value or
\* None), flush and commit.
NextUpd ==
    \/ \E s \in Sessions : Begin(s, TRUE, NoNamespace)
    \/ \E s \in Sessions, o \in Versioned, n \in {"a", NoValue} : Add(s, o, n)
    \/ \E s \in Sessions, o \in Versioned : Load(s, o)
    \/ \E s \in Sessions, o \in Versioned, n \in {"a", "b", NoValue} : SetName(s, o, n)
    \/ \E s \in Sessions : FlushInBody(s)
    \/ \E s \in Sessions : BodyRaises(s)
    \/ \E s \in Sessions : BodyReturns(s)
    \/ \E s \in Sessions : CommitFlush(s)
    \/ \E s \in Sessions : CommitDone(s, TRUE)
    \/ \E s \in Sessions : Except(s)

SpecUpd == Init /\ [][NextUpd]_vars

\* Sessions that add, change and soft-delete records, and the sync client,
\* which starts from the sentinel or from a point in time.
NextLog ==
    \/ \E s \in Sessions : Begin(s, TRUE, NoNamespace)
    \/ \E s \in Sessions, o \in Versioned : Add(s, o, "a")
    \/ \E s \in Sessions, o \in Versioned : Load(s, o)
    \/ \E s \in Sessions, o \in Versioned : SetName(s, o, "b")
    \/ \E s \in Sessions, o \in Versioned : Delete(s, o)
    \/ \E s \in Sessions : FlushInBody(s)
    \/ \E s \in Sessions : BodyRaises(s)
    \/ \E s \in Sessions : BodyReturns(s)
    \/ \E s \in Sessions : CommitFlush(s)
    \/ \E s \in Sessions : CommitDone(s, TRUE)
    \/ \E s \in Sessions : Except(s)
    \/ \E limit \in Limits : Poll(limit)
    \/ \E timestamp \in Timestamps : StartFromTs(timestamp)

SpecLog == Init /\ [][NextLog]_vars

\* Sessions that work on records of every table, the table that is not
\* versioned included.
NextCap ==
    \/ \E s \in Sessions : Begin(s, TRUE, NoNamespace)
    \/ \E s \in Sessions, o \in Objs : Add(s, o, "a")
    \/ \E s \in Sessions, o \in Objs : SetName(s, o, "b")
    \/ \E s \in Sessions, o \in Objs : Delete(s, o)
    \/ \E s \in Sessions : FlushInBody(s)
    \/ \E s \in Sessions : BodyRaises(s)
    \/ \E s \in Sessions : BodyReturns(s)
    \/ \E s \in Sessions : CommitFlush(s)
    \/ \E s \in Sessions : CommitDone(s, TRUE)
    \/ \E s \in Sessions : Except(s)

SpecCap == Init /\ [][NextCap]_vars

\* The pool, with any blobs in the bucket, its workers and the calls of
\* save. The greenlets are scheduled fairly: a worker that can take a step
\* takes it.
InitS3 ==
    /\ log = {}
    /\ InitWriters
    /\ InitClients
    /\ InitPool
    /\ bucket \in SUBSET Hashes
    /\ pm = NoMail

NextS3 ==
    \/ \E c \in Saves, data_sha256 \in Hashes : PoolSave(c, data_sha256)
    \/ \E w \in Workers : WorkerRun(w)
    \/ \E w \in Workers : QueueGet(w)
    \/ \E w \in Workers : WorkerSave(w)

SpecS3 ==
    /\ InitS3
    /\ [][NextS3]_vars
    /\ \A w \in Workers :
          WF_vars(WorkerRun(w)) /\ WF_vars(QueueGet(w)) /\ WF_vars(WorkerSave(w))

\* A call of update_contacts_from_message for account 1, on any message
\* and any Contact rows.
InitPm ==
    /\ log = {}
    /\ InitWriters
    /\ InitClients
    /\ InitPool
    /\ bucket = {}
    /\ \E message \in Messages, contacts \in SUBSET ContactRows :
          pm = [NoMail EXCEPT !.message = message, !.contacts = contacts]

NextPm == UpdateContacts

SpecPm == InitPm /\ [][NextPm]_vars

\* The logs at rest: rows with distinct sequence ids and distinct public
\* ids, of any namespace and command; a delete row has no snapshot.
Commands == {"insert", "update", "delete"}
RestingLog(ids, pidOf, nsOf, cmdOf) ==
    {Entry(i, pidOf[i], nsOf[i], "message", i, cmdOf[i],
           IF cmdOf[i] = "delete" THEN NoSnapshot
           ELSE Some([id |-> ObjPublicId(i), object |-> "message", name |-> "a"]),
           0) : i \in ids}

InitPage ==
    /\ \E ids \in SUBSET (1..MaxTxId) :
         \E pidOf \in [ids -> PublicIdPool], nsOf \in [ids -> Namespaces],
            cmdOf \in [ids -> Commands] :
           /\ \A i, j \in ids : i # j => pidOf[i] # pidOf[j]
           /\ log = RestingLog(ids, pidOf, nsOf, cmdOf)
    /\ InitWriters
    /\ InitClients
    /\ InitRest

NextPage ==
    \/ \E ns \in Namespaces, c \in CursorStrings, limit \in Limits :
          Call(ns, c, limit)
    \/ \E ns \in Namespaces, limit \in Limits : ScanStart(ns, limit)
    \/ ScanNext

SpecPage == InitPage /\ [][NextPage]_vars

---------------------------------------------------------------------------
(* Claims about the pagination of a log at rest (SpecPage).                *)

EntriesOf(namespace_id) == SortById({e \in log : e.namespace_id = namespace_id})
ScanIds == [i \in 1..Len(pg.acc) |-> pg.acc[i].id]
EntryIds(entries) == [i \in 1..Len(entries) |-> entries[i].id]

\* C1: a scan of a log at rest from the cursor '0', each cursor_end fed
\* back as the next cursor_start, comes to an empty page, and what it has
\* been handed by then is every entry of the namespace, once each, in
\* ascending sequence id.
C1_ScanIsGapFree ==
    /\ pg.phase # "error"
    /\ pg.phase = "done" => ScanIds = EntryIds(EntriesOf(pg.ns))

\* C1, where the code keeps it: a scan fails only with the TypeError of C7,
\* on a namespace that holds a delete entry, and a scan that comes to its
\* empty page has been handed every entry once, in order.
C1_ScanOfLogWithoutDeletes ==
    /\ pg.phase = "error" =>
         /\ pg.res.status = "TypeError"
         /\ \E e \in log : e.namespace_id = pg.ns /\ e.command = "delete"
    /\ pg.phase = "done" => ScanIds = EntryIds(EntriesOf(pg.ns))

\* C3: a call whose cursor_start is not the sentinel '0' and is not the
\* public id of an entry of the requested namespace raises ValueError.
C3_UnknownCursorRaises ==
    ( /\ pg.phase = "call"
      /\ pg.cursor # Sentinel
      /\ ~\E e \in log : e.public_id = pg.cursor /\ e.namespace_id = pg.ns )
    => pg.res.status = "ValueError"

\* The delta the interface prescribes for an entry.
DeltaOf(e, snap) ==
    IF e.command = "delete"
    THEN [id |-> snap.id, object_type |-> snap.object, event |-> "delete"]
    ELSE [id |-> snap.id, object_type |-> snap.object,
          event |-> IF e.command = "insert" THEN "create" ELSE "update",
          attributes |-> snap]

\* The entries a call with a valid cursor pages over.
PageOf(namespace_id, cursor_start, limit) ==
    LET start == ResolveCursor(log, namespace_id, cursor_start)
        rows == SortById({e \in log : e.namespace_id = namespace_id
                                      /\ e.id > start.id})
    IN  SubSeq(rows, 1, Min(limit, Len(rows)))

\* C7: a call with a valid cursor produces a delta for every entry of its
\* page without error, a delete entry (which has no snapshot) included.
C7_DeltaForEveryEntry ==
    (pg.phase = "call" /\ pg.res.status # "ValueError")
    => /\ pg.res.status = "ok"
       /\ Len(pg.res.deltas) = Len(PageOf(pg.ns, pg.cursor, pg.limit))

\* C7, where the code keeps it: the deltas of a page are those of its
\* entries, create for insert and update for update with the snapshot as
\* attributes, and the call fails exactly when a delete entry is in the page.
C7_DeltaOfInsertAndUpdate ==
    (pg.phase = "call" /\ pg.res.status # "ValueError")
    => LET page == PageOf(pg.ns, pg.cursor, pg.limit)
       IN  IF \E i \in 1..Len(page) : page[i].command = "delete"
           THEN pg.res.status = "TypeError"
           ELSE /\ pg.res.status = "ok"
                /\ pg.res.deltas =
                     [i \in 1..Len(page) |-> DeltaOf(page[i], page[i].snapshot[1])]

---------------------------------------------------------------------------
(* Claims about a client that pages while the sessions write (SpecSync).   *)

\* C2: the client never gets past an entry: every committed entry of its
\* namespace below a sequence id it has been handed has been handed to it.
C2_NoEntrySkipped ==
    \A e \in log :
        ( /\ e.namespace_id = rd.ns
          /\ \E i \in 1..Len(rd.seen) : rd.seen[i] > e.id )
        => \E i \in 1..Len(rd.seen) : rd.seen[i] = e.id

---------------------------------------------------------------------------
(* Claims about the sessions and the log they write (Spec).                *)

EntriesFor(entries, o) ==
    {e \in entries : e.table_name = TableOf(o) /\ e.record_id = obj[o].id}
Committed(s) == s \in Sessions /\ pc[s] = "committed"

Appended == log \cup UNION {flushed[s] : s \in Sessions}

\* C5: once the delete entry of a versioned record that was soft-deleted
\* once through InboxSession.delete has been appended, no further entry of
\* that record is appended, whatever is done to the record afterwards
\* (further flushes, changes to the still-deleted record, clearing the
\* marker): the delete entry stays the record's only one, and its last.
C5_NoEntryAfterTheDeleteEntry ==
    [][\A o \in Versioned :
        ( /\ obj'[o].dels <= 1
          /\ \E d \in EntriesFor(Appended, o) : d.command = "delete" )
        => \A e \in Appended' :
              (e.table_name = TableOf(o) /\ e.record_id = obj[o].id)
              => e \in Appended]_vars

\* C6: when capture finds a dirty, non-deleted versioned record whose
\* encoded snapshot is the snapshot of the newest entry of the record, it
\* adds no entry for the record.
C6_IdenticalSnapshotElided ==
    [][\A s \in Sessions, o \in Versioned :
        ( /\ obj[o].sess = s /\ obj[o].st = "persistent"
          /\ obj[o].modified /\ ~obj[o].deleted_at
          /\ captures'[s] = captures[s] + 1
          /\ pc'[s] # "except"
          /\ LET prev == PrevRevision(log \cup flushed'[s], TableOf(o), obj[o].id)
             IN  /\ prev # << >>
                 /\ prev[1].snapshot = Some(Encode(o, obj[o])) )
        => \A i \in 1..Len(pending'[s]) :
              ~( /\ pending'[s][i].table_name = TableOf(o)
                 /\ pending'[s][i].record_id = obj[o].id )]_vars

\* A unit of work that loaded a committed message, wrote its name back to
\* the value the log has, and whose one flush left nothing to append.
C6_Witness ==
    \E s \in Sessions, o \in Versioned :
        /\ pc[s] = "commit" /\ captures[s] = 1
        /\ pending[s] = << >> /\ flushed[s] = {}
        /\ \A p \in Objs : obj[p].sess = s <=> p = o
        /\ TableOf(o) = "message"
        /\ obj[o].st = "persistent" /\ ~obj[o].modified /\ ~obj[o].deleted_at
        /\ LET prev == PrevRevision(log, TableOf(o), obj[o].id)
           IN  prev # << >> /\ prev[1].snapshot = Some(Encode(o, obj[o]))

\* C8: an encoder that raises for an object does not end the unit of work:
\* no session leaves its block with the encoder's exception.
C8_EncoderFailureDoesNotAbort ==
    \A s \in Sessions : exc[s] # "encode"

\* The failures of capture that are not the encoder's: the store fails on
\* appending an entry, or on the query for the prior revision.
CaptureFailures == {"append", "read"}

\* C9: a unit of work whose capture failed on the store has no entry in the
\* log and no record of its own making in the store, its exception leaves
\* the scope, and its except clause writes nothing; a record is only ever
\* written by a session that commits without an exception.
C9_CaptureFailureRollsBack ==
    /\ [](\A s \in Sessions :
            exc[s] \in CaptureFailures =>
                /\ pc[s] \in {"except", "raised"}
                /\ \A e \in log : e.uow # s
                /\ \A o \in Objs : created[o].scope = s => ~row[o].exists
                /\ pc[s] = "raised" =>
                      /\ flushed[s] = {} /\ pending[s] = << >>
                      /\ \A o \in Objs : obj[o].sess # s)
    /\ [][\A s \in Sessions :
            /\ (exc'[s] \in CaptureFailures /\ pc'[s] # pc[s]) =>
                  /\ log' = log /\ row' = row
                  /\ pc'[s] \in {"except", "raised"}
            /\ \A o \in Objs :
                  (obj[o].sess = s /\ row'[o] # row[o]) =>
                      exc'[s] = "none" /\ pc'[s] = "committed"]_vars

\* The only unit of work so far created a record, had an entry appended,
\* and was rolled back when the store failed in a later capture.
C9_Witness ==
    \E s \in Sessions, o \in Versioned :
        /\ pc[s] = "raised" /\ exc[s] \in CaptureFailures
        /\ \A t \in Sessions \ {s} : pc[t] = "idle"
        /\ created[o].scope = s
        /\ captures[s] >= 2 /\ nextTxId > 1
        /\ log = {} /\ ~row[o].exists

\* C10: the log a reader pages over holds exactly the entries of the units
\* of work that committed: an entry of a unit of work in flight or rolled
\* back is not in it, a commit puts all the entries of its unit of work in
\* it together with the unit's record changes, and nothing else writes it.
C10_VisibleIffCommitted ==
    /\ [](/\ \A e \in log : Committed(e.uow)
          /\ \A s \in Sessions :
                /\ \A e \in flushed[s] : e.uow = s /\ e \notin log
                /\ pc[s] \in {"committed", "raised"} =>
                      flushed[s] = {} /\ pending[s] = << >>
          /\ \A o \in Versioned :
                /\ row[o].exists =>
                      \E e \in EntriesFor(log, o) : e.command = "insert"
                /\ EntriesFor(log, o) # {} => Committed(created[o].scope))
    /\ [][/\ \A s \in Sessions :
               (pc[s] # "committed" /\ pc'[s] = "committed") =>
                   /\ IsClean(s)
                   /\ log' = log \cup flushed[s]
                   /\ \A o \in Objs : obj[o].sess = s /\ obj[o].st # "removed" =>
                         /\ row'[o].exists
                         /\ row'[o].name = obj[o].name
                         /\ row'[o].deleted_at = obj[o].deleted_at
          /\ log' # log => \E s \in Sessions :
                              pc[s] # "committed" /\ pc'[s] = "committed"]_vars

\* One unit of work has committed and its entries are in the log while
\* another, which has flushed an entry, is still in flight.
C10_Witness ==
    \E s, t \in Sessions :
        /\ Committed(s) /\ \E e \in log : e.uow = s
        /\ pc[t] \in {"body", "commit"} /\ flushed[t] # {}

---------------------------------------------------------------------------
(* Claims about the namespace of the entries (SpecNs).                     *)

\* C11: the namespace_id of every entry that capture appended is the id of
\* the namespace of the record the entry describes, whether the session was
\* built with a namespace or without one.
C11_EntryNamespaceIsRecordNamespace ==
    \A e \in Appended, o \in Objs :
        (e.table_name = TableOf(o) /\ e.record_id = obj[o].id)
        => e.namespace_id = NsOf(o)

---------------------------------------------------------------------------
(* Claims about one page of a log at rest (SpecPage).                      *)

\* C12: a page echoes the cursor_start it was given; its cursor_end is the
\* public id of the last entry it returns, or cursor_start when it returns
\* none; so cursor_end is a cursor the next call accepts, it is never behind
\* cursor_start, and a client that has caught up and polls with it gets the
\* same empty page again, with no error.
C12_CursorEnd ==
    (pg.phase = "call" /\ pg.res.status = "ok") =>
        LET n == Len(pg.res.ids)
            next == GetEntries(log, pg.ns, pg.res.cursor_end, pg.limit)
            from == ResolveCursor(log, pg.ns, pg.cursor)
            upto == ResolveCursor(log, pg.ns, pg.res.cursor_end)
        IN  /\ pg.res.cursor_start = pg.cursor
            /\ n > 0 => \E e \in log : /\ e.id = pg.res.ids[n]
                                       /\ e.public_id = pg.res.cursor_end
            /\ n = 0 => /\ pg.res.cursor_end = pg.cursor
                        /\ next.status = "ok" /\ next.deltas = << >>
                        /\ next.cursor_end = pg.res.cursor_end
            /\ upto.ok /\ upto.id >= from.id
            /\ next.status # "ValueError"

\* A page of two entries asked for with the public id of an entry.
C12_Witness ==
    /\ pg.phase = "call" /\ pg.res.status = "ok"
    /\ pg.cursor # Sentinel /\ Len(pg.res.ids) = 2
    /\ pg.res.cursor_end # pg.cursor

\* C13: a page has at most limit deltas; they are of entries of the
\* requested namespace with a sequence id above the one the cursor resolves
\* to, in strictly ascending order of sequence id; and no such entry with a
\* lower sequence id than a returned one, or left out of a page that is not
\* full, is passed over.
C13_PageIsFirstEligible ==
    (pg.phase = "call" /\ pg.res.status = "ok") =>
        LET ids == pg.res.ids
            n == Len(ids)
            start == ResolveCursor(log, pg.ns, pg.cursor).id
            eligible == {e \in log : e.namespace_id = pg.ns /\ e.id > start}
        IN  /\ n <= pg.limit /\ n = Len(pg.res.deltas)
            /\ \A i \in 1..n : \E e \in eligible : e.id = ids[i]
            /\ \A i, j \in 1..n : i < j => ids[i] < ids[j]
            /\ \A e \in eligible :
                  (\A i \in 1..n : ids[i] # e.id) =>
                      n = pg.limit /\ e.id > ids[n]

\* A full page of two entries that steps over an entry of another
\* namespace.
C13_Witness ==
    /\ pg.phase = "call" /\ pg.res.status = "ok"
    /\ Len(pg.res.ids) = 2 /\ pg.limit = 2
    /\ \E e \in log : /\ e.namespace_id # pg.ns
                      /\ pg.res.ids[1] < e.id /\ e.id < pg.res.ids[2]

---------------------------------------------------------------------------
(* A client that starts from a point in time, on a log at rest whose rows  *)
(* carry created_at, the store's clock when the row was appended (it does  *)
(* not decrease with the sequence id). The rows are inserts.               *)

StampedLog(ids, pidOf, nsOf, createdAt) ==
    {[id |-> i, public_id |-> pidOf[i], namespace_id |-> nsOf[i],
      table_name |-> "message", record_id |-> i, command |-> "insert",
      snapshot |-> Some([id |-> ObjPublicId(i), object |-> "message",
                         name |-> "a"]),
      uow |-> 0, created_at |-> createdAt[i]] : i \in ids}

InitTs ==
    /\ \E ids \in SUBSET (1..MaxTxId) :
         \E pidOf \in [ids -> PublicIdPool], nsOf \in [ids -> Namespaces],
            createdAt \in [ids -> Ticks] :
           /\ \A i, j \in ids : i # j => pidOf[i] # pidOf[j]
           /\ \A i, j \in ids : i < j => createdAt[i] <= createdAt[j]
           /\ log = StampedLog(ids, pidOf, nsOf, createdAt)
    /\ InitWriters
    /\ InitClients
    /\ InitRest

\* get_public_id_from_ts, and then a scan from the cursor it returned: ts
\* is the timestamp asked for and from the cursor returned.
CallTs(namespace_id, timestamp, limit) ==
    LET cursor == GetPublicIdFromTs(log, namespace_id, timestamp)
    IN  /\ pg.phase = "idle"
        /\ pg' = [phase |-> "scan", ns |-> namespace_id, limit |-> limit,
                  cursor |-> cursor, acc |-> << >>, res |-> pg.res,
                  ts |-> timestamp, from |-> cursor]
        /\ UNCHANGED <<log, rd>>
        /\ UNCHANGED <<writeVars, s3Vars, pm>>

NextTs ==
    \/ \E ns \in Namespaces, timestamp \in Timestamps, limit \in Limits :
          CallTs(ns, timestamp, limit)
    \/ ScanNext

SpecTs == InitTs /\ [][NextTs]_vars

\* The entries of the namespace asked for that were created before the
\* timestamp asked for, and those created after it.
CreatedBefore ==
    {e \in log : /\ e.namespace_id = pg.ns
                 /\ e.created_at < UtcFromTimestamp(pg.ts)}
CreatedAfter ==
    {e \in log : /\ e.namespace_id = pg.ns
                 /\ e.created_at > UtcFromTimestamp(pg.ts)}

C15_OnlyAndAllEntriesAfter ==
    pg.phase = "done" => ScanIds = EntryIds(SortById(CreatedAfter))

---------------------------------------------------------------------------
(* Claims about soft deletion, capture and session_scope (Spec).           *)

\* The revisions capture has added to session s for record o.
PendingFor(pend, o, r) ==
    {i \in 1..Len(pend) : /\ pend[i].table_name = TableOf(o)
                          /\ pend[i].record_id = r.id}

\* C16: when capture runs over a versioned record that is persisted, not
\* soft-deleted in the store, and whose soft-delete marker the unit of work
\* has set, it adds a delete revision for the record, whatever the record's
\* own should_create_revision() says.
C16_NewlySoftDeletedGetsDelete ==
    [][\A s \in Sessions, o \in Versioned :
        ( /\ obj[o].sess = s /\ obj[o].st = "persistent"
          /\ obj[o].modified /\ obj[o].deleted_at /\ ~row[o].deleted_at
          /\ captures'[s] = captures[s] + 1
          /\ pc'[s] # "except" )
        => \E i \in PendingFor(pending'[s], o, obj[o]) :
              pending'[s][i].command = "delete"]_vars

\* C17: no operation physically removes a record: no DELETE is issued for a
\* record, and a record that is in the store stays in it.
C17_NoRecordRemoved ==
    [][\A o \in Objs :
        /\ obj'[o].st # "removed"
        /\ row[o].exists => row'[o].exists]_vars

C19_CaptureOncePerCommit ==
    \A s \in Sessions :
        Committed(s) =>
            /\ captures[s] <= 1
            /\ (\E e \in log : e.uow = s) => captures[s] = 1

\* C20: session_scope calls commit exactly when its block ends without an
\* exception; when the block or the commit raises it calls rollback and
\* the exception it caught leaves the scope; on every way out close is
\* called once, last.
C20_SessionScope ==
    /\ [](\A s \in Sessions :
            /\ pc[s] \in {"idle", "body"} => calls[s] = << >>
            /\ pc[s] = "commit" => calls[s] = <<"commit">> /\ exc[s] = "none"
            /\ pc[s] = "committed" =>
                  calls[s] = <<"commit", "close">> /\ exc[s] = "none"
            /\ pc[s] = "except" =>
                  exc[s] # "none" /\ calls[s] \in {<< >>, <<"commit">>}
            /\ pc[s] = "raised" =>
                  /\ exc[s] # "none"
                  /\ calls[s] \in {<<"rollback", "close">>,
                                   <<"commit", "rollback", "close">>})
    /\ [][\A s \in Sessions :
            /\ (pc[s] = "body" /\ pc'[s] = "except") => calls'[s] = << >>
            /\ (pc[s] = "body" /\ pc'[s] = "commit") => exc[s] = "none"
            /\ (pc[s] = "except" /\ pc'[s] # "except") =>
                  /\ pc'[s] = "raised" /\ exc'[s] = exc[s]
                  /\ calls'[s] = calls[s] \o <<"rollback", "close">>]_vars

\* One scope has committed and closed; in another the commit raised, and
\* it rolled back, closed and let the commit's exception out.
C20_Witness ==
    \E s, t \in Sessions :
        /\ pc[s] = "committed" /\ calls[s] = <<"commit", "close">>
        /\ pc[t] = "raised" /\ exc[t] = "commit"
        /\ calls[t] = <<"commit", "rollback", "close">>

---------------------------------------------------------------------------
(* Claims about the update entries (SpecUpd).                              *)

\* Capture runs, in this step and without raising, over record o, which is
\* dirty and not soft-deleted in session s and which capture is to version.
CapturedDirty(s, o) ==
    /\ obj[o].sess = s /\ obj[o].st = "persistent"
    /\ obj[o].modified /\ ~obj[o].deleted_at
    /\ ShouldCreateRevision(o, obj[o])
    /\ captures'[s] = captures[s] + 1
    /\ pc'[s] # "except"

\* The update revisions with the record's new snapshot that capture has
\* left in the session.
UpdatesAdded(s, o) ==
    {i \in PendingFor(pending'[s], o, obj[o]) :
        /\ pending'[s][i].command = "update"
        /\ pending'[s][i].snapshot = Some(Encode(o, obj[o]))}

\* C21: when capture runs over a dirty, non-deleted versioned record whose
\* encoded snapshot is not equal to the snapshot of the newest entry of the
\* record (a value changed, a key was added, or a key of the prior snapshot
\* is gone), it adds exactly one update revision, with the new snapshot.
C21_ChangedSnapshotLogged ==
    [][\A s \in Sessions, o \in Versioned :
        ( /\ CapturedDirty(s, o)
          /\ LET prev == PrevRevision(log \cup flushed'[s], TableOf(o), obj[o].id)
             IN  /\ prev # << >>
                 /\ prev[1].snapshot # NoSnapshot
                 /\ prev[1].snapshot # Some(Encode(o, obj[o])) )
        => /\ Cardinality(UpdatesAdded(s, o)) = 1
           /\ Cardinality(PendingFor(pending'[s], o, obj[o])) = 1]_vars

\* C21, where the code keeps it: the update revision is added when a key of
\* the new snapshot is not in the prior one or has another value there.
C21_ChangedOrAddedKeyLogged ==
    [][\A s \in Sessions, o \in Versioned :
        ( /\ CapturedDirty(s, o)
          /\ LET prev == PrevRevision(log \cup flushed'[s], TableOf(o), obj[o].id)
                 snapshot == Encode(o, obj[o])
             IN  /\ prev # << >>
                 /\ prev[1].snapshot # NoSnapshot
                 /\ \E k \in DOMAIN snapshot :
                       \/ k \notin DOMAIN prev[1].snapshot[1]
                       \/ prev[1].snapshot[1][k] # snapshot[k] )
        => /\ Cardinality(UpdatesAdded(s, o)) = 1
           /\ Cardinality(PendingFor(pending'[s], o, obj[o])) = 1]_vars

---------------------------------------------------------------------------
(* Claims about the log as a whole (SpecLog).                              *)

\* C23: the log is append-only. An entry that capture appends gets a
\* sequence id above those of all the entries there are and of all that
\* were ever numbered; an entry, once appended, keeps its sequence id,
\* public id, namespace_id, table_name, record_id, command and snapshot; a
\* committed entry is never removed; and a step of the sync client (a page,
\* or get_public_id_from_ts) leaves every entry as it is.
C23_LogIsAppendOnly ==
    [][/\ log \subseteq log'
       /\ \A e \in Appended, f \in Appended' : f.id = e.id => f = e
       /\ \A f \in Appended' \ Appended :
             /\ f.id >= nextTxId
             /\ \A e \in Appended : f.id > e.id
       /\ rd' # rd => (log' = log /\ flushed' = flushed)]_vars

\* The sync client has been handed a page, and after that a unit of work
\* has appended an update or delete entry, above the entries of the page.
C23_Witness ==
    /\ rd.seen # << >> /\ log # {}
    /\ \E s \in Sessions : \E f \in flushed[s] :
          /\ f.command # "insert"
          /\ \A i \in 1..Len(rd.seen) : f.id > rd.seen[i]
          /\ \A e \in log : f.id > e.id

---------------------------------------------------------------------------
(* Claims about what capture versions (SpecCap).                           *)

\* Capture runs over session s in this step, without raising.
Captured(s) == captures'[s] = captures[s] + 1 /\ pc'[s] # "except"

\* C24: capture adds a revision only for an object of a versioned type
\* whose should_create_revision() is true: every entry is of a versioned
\* table, never of the Transaction table or of a table that does not mix in
\* HasRevisions; every revision a run of capture adds is of a record of the
\* session that is so; and a flush that finds nothing in the session but
\* the entries capture added before leaves nothing to flush.
C24_OnlyVersionedObjectsLogged ==
    /\ [](\A e \in Appended :
             /\ e.table_name \in TableNames \ {"messagecontactassociation"}
             /\ \E o \in Versioned : e \in EntriesFor({e}, o))
    /\ [][\A s \in Sessions :
            Captured(s) =>
                /\ \A i \in 1..Len(pending'[s]) :
                      \E o \in Objs :
                          /\ obj[o].sess = s
                          /\ HasRevisions(TableOf(o))
                          /\ ObjShouldCreateRevision(o, obj[o])
                          /\ pending'[s][i].table_name = TableOf(o)
                          /\ pending'[s][i].record_id = obj'[o].id
                /\ ( /\ SessionNew(s) = {} /\ SessionDirty(s) = {}
                     /\ SessionDeleted(s) = {} )
                   => pending'[s] = << >>]_vars

\* A unit of work that created a message and an association has committed
\* after two runs of capture, and the log holds the message's entry alone.
C24_Witness ==
    \E s \in Sessions, o, p \in Objs :
        /\ Committed(s) /\ captures[s] = 2
        /\ TableOf(o) = "message" /\ TableOf(p) = "messagecontactassociation"
        /\ created[o].scope = s /\ row[o].exists /\ row[p].exists
        /\ Cardinality(log) = 1
        /\ \A e \in log : e.uow = s /\ e \in EntriesFor(log, o)

---------------------------------------------------------------------------
(* Claims about the S3 worker pool (SpecS3).                               *)

\* C25: every call of S3WorkerPool.save returns, the workers being
\* scheduled fairly: a call that waits on its Event finds it set in the end,
\* whether the blob is new or its key is in the bucket already.
C25_SaveReturns ==
    \A c \in Saves : (saves[c] = "waiting") ~> Returned(c)

\* C25, as the code stands: no Event is ever set, so no call returns; and a
\* worker that was handed a blob whose key is not in the bucket serves
\* nothing after it.
C25_NoSaveReturns ==
    /\ \A c \in Saves : ~callback_event[c]
    /\ \A w \in Workers :
          workers[w].pc = "dead" => workers[w].item.data_sha256 \notin bucket

---------------------------------------------------------------------------
(* Claims about update_contacts_from_message (SpecPm).                     *)

AddressesOf(message) == {Chain(message)[i] : i \in 1..Len(Chain(message))}

\* The Contact rows of the account for a canonicalized address.
ExistingFor(canonicalized_address) ==
    {c \in pm.contacts : /\ c.canonicalized_address = canonicalized_address
                          /\ c.account_id = pm.account_id}

\* C26: after the call, every address of the message's from, to, cc and
\* bcc fields has an association whose contact is not None and has the
\* address's canonicalized form; a Contact was made for every canonicalized
\* address without a Contact row of the account; and the associations use
\* one Contact for a canonicalized address.
C26_EveryAddressHasContact ==
    pm.phase = "done" =>
        LET with == {i \in 1..Len(pm.assocs) : pm.assocs[i].contact # NoContact}
        IN  /\ \A a \in AddressesOf(pm.message) :
                  \E i \in with :
                      pm.assocs[i].contact[1].canonicalized_address = Canonicalize(a)
            /\ \A a \in AddressesOf(pm.message) :
                  ExistingFor(Canonicalize(a)) = {} =>
                      Cardinality({c \in pm.created :
                          c.canonicalized_address = Canonicalize(a)}) = 1
            /\ \A i, j \in with :
                  pm.assocs[i].contact[1].canonicalized_address
                    = pm.assocs[j].contact[1].canonicalized_address
                  => pm.assocs[i].contact = pm.assocs[j].contact

\* C26, as the code stands: the call makes no Contact; there is one
\* association for every address of the four fields, in their order, and
\* its contact is the account's Contact row for the canonicalized address,
\* or None when there is no such row.
C26_OnlyExistingContactsAssociated ==
    pm.phase = "done" =>
        LET addresses == Chain(pm.message)
        IN  /\ pm.created = {}
            /\ Len(pm.assocs) = Len(addresses)
            /\ \A i \in 1..Len(addresses) :
                  LET rows == ExistingFor(Canonicalize(addresses[i]))
                  IN  IF rows = {} THEN pm.assocs[i].contact = NoContact
                      ELSE /\ pm.assocs[i].contact # NoContact
                           /\ pm.assocs[i].contact[1] \in rows

=============================================================================
